---- MODULE Spec2Model ----
(***************************************************************************)
(* StockSage: the FastAPI front door (src/main.py), the orchestrator       *)
(* pipeline root_agent (src/chat_orchestrator/agent.py) with the web       *)
(* intelligence loop (src/web_intelligence_agent/agent.py), and the        *)
(* scrape adapter (src/web_intelligence_agent/web_scraper_tool.py).        *)
(*                                                                         *)
(* The specifications of the module:                                        *)
(*   Spec          POST /chat requests handled concurrently by main.py     *)
(*   PipelineSpec  one run of root_agent.run_async consumed to its end     *)
(*   ScrapeSpec    one call of scrape_links on a bounded result list       *)
(*   ConsumeSpec   the event loop of chat_with_agent on a bounded stream   *)
(*   SearchSpec    one call of GoogleSearchTool.search                     *)
(*   ShareSpec     one call of get_share_price                             *)
(*   EnvSpec       one call of get_google_search_tool                      *)
(***************************************************************************)
EXTENDS Integers, Sequences, FiniteSets, TLC

VARIABLES
    process,         \* main.py as a process: "starting" | "serving" | "exited"
    AGENT_STATUS,    \* main.py:175/178
    sessions,        \* session_service: session_id -> [app_name, user_id, events]
    uuids,           \* number of uuid.uuid4() values drawn so far
    req,             \* per request of POST /chat: the handler's locals and position
    run,             \* PipelineSpec: the state of one root_agent run
    seen,            \* PipelineSpec: the events the consumer has received
    results,         \* ScrapeSpec: the argument of scrape_links
    fetch,           \* ScrapeSpec: what requests.get does for the i-th call
    scraped_results, \* ScrapeSpec: the local list of scrape_links
    scrape_pc,       \* ScrapeSpec: "loop" | "returned"
    consume,         \* ConsumeSpec: the handler's event loop on a given stream
    search,          \* SearchSpec: one call of GoogleSearchTool.search
    share,           \* ShareSpec: one call of get_share_price
    envtool          \* EnvSpec: one call of get_google_search_tool

vars == <<process, AGENT_STATUS, sessions, uuids, req, run, seen,
          results, fetch, scraped_results, scrape_pc,
          consume, search, share, envtool>>

toolVars == <<consume, search, share, envtool>>

----------------------------------------------------------------------------
(* Bounds of the model *)

MaxRequests == 2
MaxQueryLen == 2
MaxToolCalls == 1
MaxLinks == 3
MaxEvents == 3
MaxItems == 3
MaxTimestamps == 2

----------------------------------------------------------------------------
(* Program constants *)

APP_NAME == "chat_orchestrator_app"
max_iterations == 3
min_length == 1
max_length == 5000

HTTP_200_OK == 200
HTTP_400_BAD_REQUEST == 400
HTTP_422_UNPROCESSABLE_ENTITY == 422
HTTP_500_INTERNAL_SERVER_ERROR == 500
HTTP_503_SERVICE_UNAVAILABLE == 503

----------------------------------------------------------------------------
(* The agent tree: chat_orchestrator/agent.py and web_intelligence_agent/   *)
(* agent.py.  The LoopAgent exported by web_intelligence_agent/agent.py is  *)
(* bound to the name web_intelligence_agent by the orchestrator's import.   *)

\* The route decisions the router's text can state (router instruction,
\* ROUTING LOGIC and RESPONSE PROTOCOL).
Routes == {"FinancialOnly", "WebOnly", "Both", "Clarify"}

NoneText == [by |-> "None", says |-> "None"]

\* Mutant: the web specialist listed before the financial one.
root_sub_agents_web_first ==
    << "router_agent", "web_intelligence_agent",
       "data_researcher_agent", "synthesizer_agent" >>

root_sub_agents ==
    << "router_agent", "data_researcher_agent",
       "web_intelligence_agent", "synthesizer_agent" >>

search_and_scrape_sub_agents == << "data_gatherer_agent", "optimizer_agent" >>

Specialists == {"data_researcher_agent", "web_intelligence_agent"}

\* tools=[...] of each LlmAgent: only these two have any.
HasTools(leaf) == leaf \in {"data_researcher_agent", "data_gatherer_agent"}

\* The agent of the orchestrator's list that a leaf LlmAgent belongs to.
StageOf(leaf) ==
    IF leaf \in {"data_gatherer_agent", "optimizer_agent"}
    THEN "web_intelligence_agent" ELSE leaf

\* Mutant: an off-by-one loop test.
LoopContinues_off_by_one(times_looped) ==
    max_iterations = 0 \/ times_looped <= max_iterations

\* LoopAgent: while not max_iterations or times_looped < max_iterations
LoopContinues(times_looped) ==
    max_iterations = 0 \/ times_looped < max_iterations

\* event.actions.escalate is set only by a tool that writes
\* tool_context.actions.escalate; no tool of these agents does.
Escalates(leaf, kind) == FALSE

\* What an LlmAgent's final text can say; optimizer_agent either refines its
\* answer or finds nothing left to refine.
Says(leaf) ==
    CASE leaf = "router_agent" -> Routes \cup {"None"}
      [] leaf = "data_researcher_agent" -> {"answer", "refusal"}
      [] leaf = "optimizer_agent" -> {"answer", "converged"}
      [] OTHER -> {"answer"}

\* The state of one run of root_agent.run_async: a suspended generator.
NewRun ==
    [ idx |-> 1, inner |-> 1, times_looped |-> 0, should_exit |-> FALSE,
      calls |-> 0, pending |-> FALSE, tool |-> "none", route |-> "none",
      log |-> << >>, outputs |-> << >>, state |-> "running" ]

CurrentLeaf(p) ==
    LET a == root_sub_agents[p.idx]
    IN  IF a = "web_intelligence_agent"
        THEN search_and_scrape_sub_agents[p.inner] ELSE a

\* What the model, the tools and the transport may do at the next resume.
Choices(p) ==
    IF p.state # "running" THEN {}
    ELSE LET leaf == CurrentLeaf(p)
         IN  IF p.pending
             THEN {[kind |-> "response", ok |-> b, says |-> "None"] : b \in BOOLEAN}
                  \cup {[kind |-> "raise", ok |-> FALSE, says |-> "None"]}
             ELSE {[kind |-> "final", ok |-> TRUE, says |-> s] : s \in Says(leaf)}
                  \cup {[kind |-> "raise", ok |-> FALSE, says |-> "None"]}
                  \cup (IF HasTools(leaf) /\ p.calls < MaxToolCalls
                        THEN {[kind |-> "call", ok |-> TRUE, says |-> "None"]}
                        ELSE {})

\* SequentialAgent / LoopAgent: where the run stands once a leaf has yielded
\* its last event.
Advance(p, escalate) ==
    LET n == Len(root_sub_agents)
        leave == [p EXCEPT !.idx = p.idx + 1, !.inner = 1, !.times_looped = 0,
                           !.should_exit = FALSE,
                           !.state = IF p.idx + 1 > n THEN "exhausted" ELSE "running"]
        exit == p.should_exit \/ escalate
    IN  IF root_sub_agents[p.idx] = "web_intelligence_agent"
        THEN IF p.inner < Len(search_and_scrape_sub_agents)
             THEN [p EXCEPT !.inner = p.inner + 1, !.should_exit = exit]
             ELSE IF exit THEN leave
             ELSE IF LoopContinues(p.times_looped + 1)
             THEN [p EXCEPT !.inner = 1, !.times_looped = p.times_looped + 1]
             ELSE leave
        ELSE leave

\* One resume of the generator: the run after it and the event it yields.
Step(p, c) ==
    LET leaf == CurrentLeaf(p)
        fresh == ~p.pending /\ p.calls = 0
        log1 == IF fresh THEN Append(p.log, <<"start", leaf>>) ELSE p.log
        q == [p EXCEPT !.log = log1]
    IN  CASE c.kind = "raise" ->
               [ p  |-> [q EXCEPT !.state = "raised"],
                 ev |-> [author |-> leaf, kind |-> "raised", content |-> NoneText,
                         escalate |-> FALSE] ]
          [] c.kind = "call" ->
               [ p  |-> [q EXCEPT !.pending = TRUE, !.calls = p.calls + 1],
                 ev |-> [author |-> leaf, kind |-> "function_call",
                         content |-> NoneText, escalate |-> FALSE] ]
          [] c.kind = "response" ->
               [ p  |-> [q EXCEPT !.pending = FALSE,
                                  !.tool = IF c.ok THEN "ok" ELSE "failure"],
                 ev |-> [author |-> leaf, kind |-> "function_response",
                         content |-> NoneText,
                         escalate |-> Escalates(leaf, "function_response")] ]
          [] OTHER ->
               LET text == IF c.says = "None" THEN NoneText
                           ELSE [by |-> leaf, says |-> c.says]
                   r == [q EXCEPT !.calls = 0, !.tool = "none",
                                  !.route = IF leaf = "router_agent"
                                            THEN c.says ELSE p.route,
                                  !.log = Append(log1, <<"end", leaf>>),
                                  !.outputs = Append(p.outputs, text)]
               IN  [ p  |-> Advance(r, Escalates(leaf, "text")),
                     ev |-> [author |-> leaf, kind |-> "text", content |-> text,
                             escalate |-> Escalates(leaf, "text")] ]

\* Event.is_final_response(): no function call, no function response, not
\* partial.
is_final_response(ev) == ev.kind \notin {"function_call", "function_response"}

----------------------------------------------------------------------------
(* PipelineSpec: root_agent.run_async consumed to its end *)

Resume ==
    /\ run.state = "running"
    /\ \E c \in Choices(run) :
         LET s == Step(run, c)
         IN  /\ run' = s.p
             /\ seen' = Append(seen, s.ev)
    /\ UNCHANGED <<process, AGENT_STATUS, sessions, uuids, req,
                   results, fetch, scraped_results, scrape_pc, toolVars>>


----------------------------------------------------------------------------
(* main.py: POST /chat *)

Requests == 1..MaxRequests

\* Characters of a query: a whitespace character and a non-whitespace one.
Chars == {" ", "a"}

RECURSIVE SeqsUpTo(_)
SeqsUpTo(n) ==
    IF n = 0 THEN { << >> }
    ELSE LET S == SeqsUpTo(n - 1)
         IN  S \cup { Append(q, ch) : q \in { x \in S : Len(x) = n - 1 }, ch \in Chars }

Queries == SeqsUpTo(MaxQueryLen)

Users == {"default-user"}

isspace(ch) == ch = " "

\* str.strip(): leading and trailing whitespace removed.
RECURSIVE lstrip(_)
lstrip(q) ==
    IF q # << >> /\ isspace(Head(q)) THEN lstrip(Tail(q)) ELSE q

RECURSIVE rstrip(_)
rstrip(q) ==
    IF q # << >> /\ isspace(q[Len(q)]) THEN rstrip(SubSeq(q, 1, Len(q) - 1)) ELSE q

strip(q) == rstrip(lstrip(q))

\* ChatRequest.query: Field(..., min_length=1, max_length=5000)
ChatRequestValid(q) == min_length <= Len(q) /\ Len(q) <= max_length

\* Mutant: the query tested without strip().
QueryIsBlank_no_strip(q) == q = << >>

\* if not request.query.strip()
QueryIsBlank(q) == strip(q) = << >>

NoSession == << >>

\* uuid.uuid4(): a value no earlier call returned (collisions of the
\* 122 random bits are not modelled).
uuid4(drawn) == drawn + 1

\* Mutant: the session id derived from the user instead of a fresh uuid.
new_session_id_from_user(user_id, u) == <<"session_", user_id>>

\* session_id = f"session_{uuid.uuid4()}"
new_session_id(user_id, u) == <<"session_", u>>

DefaultText == [by |-> "main.py", says |-> "Agent did not provide a final response."]

NoReply == [status |-> 0, response |-> NoneText, session_id |-> NoSession, detail |-> << >>]

\* raise HTTPException(status_code=..., detail=...)
HTTPException(status_code, detail) ==
    [status |-> status_code, response |-> NoneText, session_id |-> NoSession,
     detail |-> detail]

\* return ChatResponse(response=..., session_id=..., timestamp=...)
ChatResponse(response, session_id) ==
    [status |-> HTTP_200_OK, response |-> response, session_id |-> session_id,
     detail |-> << >>]

\* Mutant: the exception left to global_exception_handler, which drops str(e).
OnException_reraise(e) ==
    [status |-> HTTP_500_INTERNAL_SERVER_ERROR, response |-> NoneText,
     session_id |-> NoSession, detail |-> <<"An internal server error occurred">>]

\* except Exception as e: raise HTTPException(500, f"An error occurred ...: {str(e)}")
OnException(e) ==
    HTTPException(HTTP_500_INTERNAL_SERVER_ERROR,
                  <<"An error occurred while processing your request: ", e>>)

IdleRequest ==
    [ pc |-> "idle", endpoint |-> "none", query |-> << >>, user_id |-> "default-user",
      session_id |-> NoSession, p |-> NewRun, runs |-> 0,
      final_response |-> NoneText, reply |-> NoReply ]

\* What the import of main.py can meet: everything loads, an ImportError of
\* the ADK libraries or of chat_orchestrator.agent (lines 56-74), or an
\* exception of InMemorySessionService() / Runner(...) (lines 165-179).
StartupOutcomes == {"ok", "import_error", "init_error"}

\* Mutant: the failure of lines 165-178 is logged but not re-raised.
Startup_no_reraise ==
    /\ process = "starting"
    /\ \E outcome \in StartupOutcomes :
         CASE outcome = "ok" ->
                /\ AGENT_STATUS' = "initialized"
                /\ process' = "serving"
           [] outcome = "import_error" ->
                /\ AGENT_STATUS' = AGENT_STATUS
                /\ process' = "exited"
           [] OTHER ->
                /\ AGENT_STATUS' = "error: init"
                /\ process' = "serving"
    /\ UNCHANGED <<sessions, uuids, req, run, seen,
                   results, fetch, scraped_results, scrape_pc, toolVars>>

\* Import of main.py.  A failed import calls sys.exit(1); a failure to build
\* the session service or the runner sets AGENT_STATUS and is re-raised, which
\* ends the process before it serves.
Startup ==
    /\ process = "starting"
    /\ \E outcome \in StartupOutcomes :
         CASE outcome = "ok" ->
                /\ AGENT_STATUS' = "initialized"
                /\ process' = "serving"
           [] outcome = "import_error" ->
                /\ AGENT_STATUS' = AGENT_STATUS
                /\ process' = "exited"
           [] OTHER ->
                /\ AGENT_STATUS' = "error: init"
                /\ process' = "exited"
    /\ UNCHANGED <<sessions, uuids, req, run, seen,
                   results, fetch, scraped_results, scrape_pc, toolVars>>

\* JSONResponse(status_code=..., content=health_status): the body's status
\* and agent_status fields are kept in detail.
JSONResponse(status_code, content) ==
    [status |-> status_code, response |-> NoneText, session_id |-> NoSession,
     detail |-> <<content.status, content.agent_status>>]

\* health_check (lines 218-231); nothing in the try block raises.
health_check(agent_status) ==
    JSONResponse(IF agent_status = "initialized"
                 THEN HTTP_200_OK ELSE HTTP_503_SERVICE_UNAVAILABLE,
                 [status |-> IF agent_status = "initialized"
                             THEN "healthy" ELSE "degraded",
                  agent_status |-> agent_status])

\* GET /health arrives and is answered.
Health(r) ==
    /\ process = "serving"
    /\ req[r].pc = "idle"
    /\ IF r = 1 THEN TRUE ELSE req[r - 1].pc # "idle"
    /\ req' = [req EXCEPT ![r].pc = "done", ![r].endpoint = "/health",
                          ![r].reply = health_check(AGENT_STATUS)]
    /\ UNCHANGED <<process, AGENT_STATUS, sessions, uuids, run, seen,
                   results, fetch, scraped_results, scrape_pc, toolVars>>

\* Mutant: a store that keeps only the session of the latest request.
create_session_reset(store, app_name, user_id, session_id) ==
    [k \in {session_id} |->
        [app_name |-> app_name, user_id |-> user_id, events |-> << >>]]

\* InMemorySessionService.create_session: the store with the new session; an
\* id the store already holds is refused.
create_session(store, app_name, user_id, session_id) ==
    [k \in DOMAIN store \cup {session_id} |->
        IF k = session_id
        THEN [app_name |-> app_name, user_id |-> user_id, events |-> << >>]
        ELSE store[k]]

\* A request arrives (lines 77-86, 283-322): body validation, the two guards of
\* the handler, the new session id, create_session (which, in memory, never
\* suspends), and the call of runner.run_async with final_response at its
\* default.  The handler then waits for the first event.
Chat(r) ==
    /\ process = "serving"
    /\ req[r].pc = "idle"
    /\ IF r = 1 THEN TRUE ELSE req[r - 1].pc # "idle"
    /\ \E q \in Queries, u \in Users :
         LET rq == [req[r] EXCEPT !.endpoint = "/chat", !.query = q, !.user_id = u]
             rejected(reply) == [rq EXCEPT !.pc = "done", !.reply = reply]
             sid == new_session_id(u, uuid4(uuids))
         IN  IF ~ChatRequestValid(q)
             THEN /\ req' = [req EXCEPT ![r] =
                        rejected(HTTPException(HTTP_422_UNPROCESSABLE_ENTITY,
                                               <<"validation error">>))]
                  /\ UNCHANGED <<uuids, sessions>>
             ELSE IF AGENT_STATUS # "initialized"
             THEN /\ req' = [req EXCEPT ![r] =
                        rejected(HTTPException(HTTP_503_SERVICE_UNAVAILABLE,
                                 <<"Service unavailable: Agent status is ", AGENT_STATUS>>))]
                  /\ UNCHANGED <<uuids, sessions>>
             ELSE IF QueryIsBlank(q)
             THEN /\ req' = [req EXCEPT ![r] =
                        rejected(HTTPException(HTTP_400_BAD_REQUEST,
                                               <<"Query cannot be empty">>))]
                  /\ UNCHANGED <<uuids, sessions>>
             ELSE /\ uuids' = uuids + 1
                  /\ IF sid \in DOMAIN sessions
                     THEN /\ req' = [req EXCEPT ![r] =
                                [rq EXCEPT !.pc = "done", !.session_id = sid,
                                           !.reply = OnException("AlreadyExistsError")]]
                          /\ UNCHANGED sessions
                     ELSE /\ sessions' = create_session(sessions, APP_NAME, u, sid)
                          /\ req' = [req EXCEPT ![r] =
                                [rq EXCEPT !.pc = "run_async", !.session_id = sid,
                                           !.runs = req[r].runs + 1,
                                           !.final_response = DefaultText]]
    /\ UNCHANGED <<process, AGENT_STATUS, run, seen,
                   results, fetch, scraped_results, scrape_pc, toolVars>>

\* Mutant: the loop without its break, so that a later final event overwrites
\* the text.
on_event_no_break(final_response, ev) ==
    [ final_response |-> IF is_final_response(ev) /\ ev.content # NoneText
                         THEN ev.content ELSE final_response,
      break |-> FALSE ]

\* The body of the async for loop (lines 323-327): at a final response the
\* text of the first part is kept if the event has content with parts, and
\* the loop breaks.
on_event(final_response, ev) ==
    [ final_response |-> IF is_final_response(ev) /\ ev.content # NoneText
                         THEN ev.content ELSE final_response,
      break |-> is_final_response(ev) ]

\* Mutant: the session id kept in a module-level global, which holds the id
\* of the latest request.
run_async_session_global(r) == new_session_id(req[r].user_id, uuids)

\* runner.run_async(user_id=request.user_id, session_id=session_id): the
\* handler's local session_id.
run_async_session(r) == req[r].session_id

\* One turn of `async for event in runner.run_async(...)` (lines 318-344): the
\* runner stores the event in the session and yields it; the handler breaks at
\* the first final response and returns, or formats the exception.
NextEvent(r) ==
    /\ req[r].pc = "run_async"
    /\ LET sid == run_async_session(r)
           p == req[r].p
       IN  IF p.state = "exhausted"
           THEN /\ req' = [req EXCEPT ![r].pc = "done",
                                      ![r].reply = ChatResponse(req[r].final_response, sid)]
                /\ UNCHANGED sessions
           ELSE \E c \in Choices(p) :
                  LET s == Step(p, c)
                      h == on_event(req[r].final_response, s.ev)
                  IN  IF s.p.state = "raised"
                      THEN /\ req' = [req EXCEPT ![r].pc = "done", ![r].p = s.p,
                                                 ![r].reply = OnException("PipelineFault")]
                           /\ UNCHANGED sessions
                      ELSE /\ sessions' = [sessions EXCEPT ![sid].events =
                                              Append(@, s.ev.author)]
                           /\ IF h.break
                              THEN req' = [req EXCEPT ![r].pc = "done", ![r].p = s.p,
                                                      ![r].final_response = h.final_response,
                                                      ![r].reply =
                                                         ChatResponse(h.final_response, sid)]
                              ELSE req' = [req EXCEPT ![r].p = s.p,
                                                      ![r].final_response = h.final_response]
    /\ UNCHANGED <<process, AGENT_STATUS, uuids, run, seen,
                   results, fetch, scraped_results, scrape_pc, toolVars>>


----------------------------------------------------------------------------
(* web_scraper_tool.py: scrape_links *)

None == << >>

\* Search results as GoogleSearchTool.search returns them; title and snippet
\* may be None (item.get).
Entries ==
    { [title |-> <<"t1">>, snippet |-> <<"s1">>, link |-> <<"http://a">>],
      [title |-> None,     snippet |-> <<"s2">>, link |-> <<"http://b">>] }

\* requests.get(url) followed by raise_for_status(): a page, or a
\* requests.exceptions.RequestException.
Outcomes == {"page", "RequestException"}

SeqsOver(S, n) == UNION { [1..k -> S] : k \in 0..n }

\* WebScraper.scrape(url)
scrape(url, outcome) ==
    IF outcome = "page"
    THEN [ok |-> TRUE, html_content |-> <<"prettify", url>>, error |-> None]
    ELSE [ok |-> FALSE, html_content |-> None, error |-> <<"str(e)", url>>]

\* The body of the for loop of scrape_links.
scraped_entry(result, scraped) ==
    [ title |-> result.title,
      snippet |-> result.snippet,
      url |-> result.link,
      html_content |-> scraped.html_content,
      error |-> IF ~scraped.ok THEN scraped.error ELSE None ]

\* Mutant: the loop gives up at the first link that cannot be fetched.
ScrapeOne_abort_on_failure ==
    /\ scrape_pc = "loop"
    /\ Len(scraped_results) < Len(results)
    /\ LET i == Len(scraped_results) + 1
           scraped == scrape(results[i].link, fetch[i])
       IN  IF scraped.ok
           THEN /\ scraped_results' =
                     Append(scraped_results, scraped_entry(results[i], scraped))
                /\ UNCHANGED scrape_pc
           ELSE /\ scrape_pc' = "returned"
                /\ UNCHANGED scraped_results
    /\ UNCHANGED <<process, AGENT_STATUS, sessions, uuids, req, run, seen,
                   results, fetch, toolVars>>

\* for result in results.get('results', []): ... scraped_results.append(...)
ScrapeOne ==
    /\ scrape_pc = "loop"
    /\ Len(scraped_results) < Len(results)
    /\ LET i == Len(scraped_results) + 1
           scraped == scrape(results[i].link, fetch[i])
       IN  scraped_results' = Append(scraped_results, scraped_entry(results[i], scraped))
    /\ UNCHANGED <<process, AGENT_STATUS, sessions, uuids, req, run, seen,
                   results, fetch, scrape_pc, toolVars>>

\* return {'ok': True, 'results': scraped_results}
ScrapeReturn ==
    /\ scrape_pc = "loop"
    /\ Len(scraped_results) = Len(results)
    /\ scrape_pc' = "returned"
    /\ UNCHANGED <<process, AGENT_STATUS, sessions, uuids, req, run, seen,
                   results, fetch, scraped_results, toolVars>>

----------------------------------------------------------------------------
(* Specifications *)

NoSessions == [k \in {} |-> None]

FrontDoorInit ==
    /\ process = "starting"
    /\ AGENT_STATUS = "unset"
    /\ sessions = NoSessions
    /\ uuids = 0
    /\ req = [r \in Requests |-> IdleRequest]

PipelineIdle ==
    /\ run = NewRun
    /\ seen = << >>

ScrapeIdle ==
    /\ results = << >>
    /\ fetch = << >>
    /\ scraped_results = << >>
    /\ scrape_pc = "idle"

ConsumeIdle == consume = [pc |-> "idle"]

SearchIdle == search = [pc |-> "idle"]

ShareIdle == share = [pc |-> "idle"]

EnvIdle == envtool = [pc |-> "idle"]

Init ==
    /\ FrontDoorInit /\ PipelineIdle /\ ScrapeIdle
    /\ ConsumeIdle /\ SearchIdle /\ ShareIdle /\ EnvIdle

Next ==
    \/ Startup
    \/ \E r \in Requests : Health(r)
    \/ \E r \in Requests : Chat(r)
    \/ \E r \in Requests : NextEvent(r)

Spec == Init /\ [][Next]_vars

PipelineInit ==
    /\ FrontDoorInit /\ PipelineIdle /\ ScrapeIdle
    /\ ConsumeIdle /\ SearchIdle /\ ShareIdle /\ EnvIdle

PipelineNext == Resume

PipelineSpec == PipelineInit /\ [][PipelineNext]_vars

ScrapeInit ==
    /\ FrontDoorInit
    /\ PipelineIdle
    /\ results \in SeqsOver(Entries, MaxLinks)
    /\ fetch \in [1..Len(results) -> Outcomes]
    /\ scraped_results = << >>
    /\ scrape_pc = "loop"
    /\ ConsumeIdle /\ SearchIdle /\ ShareIdle /\ EnvIdle

ScrapeNext == ScrapeOne \/ ScrapeReturn

ScrapeSpec == ScrapeInit /\ [][ScrapeNext]_vars


----------------------------------------------------------------------------
(* ConsumeSpec: the loop of chat_with_agent over an arbitrary event stream *)

\* Events a runner can yield: function calls and responses (never final),
\* and non-partial events without them, with a text part or without content.
StreamEvents ==
    { [author |-> "agent", kind |-> k, content |-> NoneText, escalate |-> FALSE] :
         k \in {"function_call", "function_response", "text"} }
    \cup
    { [author |-> "agent", kind |-> "text", content |-> [by |-> a, says |-> "answer"],
       escalate |-> FALSE] : a \in {"router_agent", "synthesizer_agent"} }

ConsumeSession == new_session_id("default-user", uuid4(0))

ConsumeInit ==
    /\ FrontDoorInit /\ PipelineIdle /\ ScrapeIdle
    /\ SearchIdle /\ ShareIdle /\ EnvIdle
    /\ \E st \in [1..MaxEvents -> StreamEvents], n \in 0..MaxEvents :
         consume = [ pc |-> "iterating", stream |-> SubSeq(st, 1, n), consumed |-> 0,
                     final_response |-> DefaultText, reply |-> NoReply ]

\* One event taken from the generator (lines 318-327).
ConsumeEvent ==
    /\ consume.pc = "iterating"
    /\ consume.consumed < Len(consume.stream)
    /\ LET h == on_event(consume.final_response, consume.stream[consume.consumed + 1])
       IN  consume' = [consume EXCEPT
                          !.consumed = @ + 1,
                          !.final_response = h.final_response,
                          !.pc = IF h.break THEN "returned" ELSE "iterating",
                          !.reply = IF h.break
                                    THEN ChatResponse(h.final_response, ConsumeSession)
                                    ELSE @]
    /\ UNCHANGED <<process, AGENT_STATUS, sessions, uuids, req, run, seen,
                   results, fetch, scraped_results, scrape_pc, search, share, envtool>>

\* The generator is exhausted (lines 329-333).
ConsumeEnd ==
    /\ consume.pc = "iterating"
    /\ consume.consumed = Len(consume.stream)
    /\ consume' = [consume EXCEPT
                      !.pc = "returned",
                      !.reply = ChatResponse(consume.final_response, ConsumeSession)]
    /\ UNCHANGED <<process, AGENT_STATUS, sessions, uuids, req, run, seen,
                   results, fetch, scraped_results, scrape_pc, search, share, envtool>>

ConsumeNext == ConsumeEvent \/ ConsumeEnd

ConsumeSpec == ConsumeInit /\ [][ConsumeNext]_vars

----------------------------------------------------------------------------
(* SearchSpec: tools.py / google_search_tool.py, GoogleSearchTool.search *)

\* dict.get(key): None for a missing key.
get(d, key) == IF key \in DOMAIN d THEN d[key] ELSE None

\* Items of a Custom Search response; an item carries more keys than the tool
\* reads and may lack some of those it reads.
ApiItems ==
    { [title |-> <<"t1">>, snippet |-> <<"s1">>, link |-> <<"http://a">>,
       displayLink |-> <<"a">>],
      [snippet |-> <<"s2">>, link |-> <<"http://b">>],
      [title |-> <<"t3">>, link |-> <<"http://c">>, kind |-> <<"customsearch#result">>] }

\* JSON bodies of a 2xx response: with an items list, or without the key.
ApiBodies ==
    { [kind |-> <<"customsearch#search">>, items |-> its] :
         its \in SeqsOver(ApiItems, MaxItems) }
    \cup { [kind |-> <<"customsearch#search">>] }

\* requests.get raises for a transport failure, raise_for_status for a 4xx or
\* 5xx answer; all three are requests.exceptions.RequestException.
TransportErrors == {"ConnectionError", "Timeout"}

HTTPErrors == {"HTTPError"}

\* What one requests.get of search can meet: a JSON body, one of the errors
\* above, or a 2xx body that is not JSON.
SearchOutcomes == {"json"} \cup TransportErrors \cup HTTPErrors \cup {"JSONDecodeError"}

\* Mutant: an except clause that names ConnectionError only.
Catches_connection_only(e) == {e = "ConnectionError"}

\* except requests.exceptions.RequestException: the errors of requests.get and
\* raise_for_status are caught; the error of response.json() is a
\* RequestException in requests >= 2.27 and a plain ValueError before, so
\* either can happen.
Catches(e) ==
    IF e \in TransportErrors \cup HTTPErrors THEN {TRUE}
    ELSE BOOLEAN

\* The error_response of the except branch.
error_response(e) == [ok |-> FALSE, error |-> <<"str(e)", e>>, results |-> << >>]

\* The dict appended for one item.
result_entry(item) ==
    [ title |-> get(item, "title"),
      snippet |-> get(item, "snippet"),
      link |-> get(item, "link") ]

SearchInit ==
    /\ FrontDoorInit /\ PipelineIdle /\ ScrapeIdle
    /\ ConsumeIdle /\ ShareIdle /\ EnvIdle
    /\ \E o \in SearchOutcomes, b \in ApiBodies :
         /\ o # "json" => b = [kind |-> <<"customsearch#search">>]
         /\ search = [ pc |-> "call", outcome |-> o, body |-> b, requests |-> 0,
                       items |-> << >>, results |-> << >>,
                       ret |-> None, raised |-> "none" ]

\* requests.get, raise_for_status, response.json() and
\* search_results.get('items', []) (lines 22-27), or the except branch.
SearchGet ==
    /\ search.pc = "call"
    /\ IF search.outcome = "json"
       THEN search' = [search EXCEPT
                          !.requests = @ + 1,
                          !.items = IF "items" \in DOMAIN search.body
                                    THEN search.body.items ELSE << >>,
                          !.pc = "loop"]
       ELSE \E caught \in Catches(search.outcome) :
              IF caught
              THEN search' = [search EXCEPT !.requests = @ + 1,
                                            !.ret = error_response(search.outcome),
                                            !.pc = "returned"]
              ELSE search' = [search EXCEPT !.requests = @ + 1,
                                            !.raised = search.outcome,
                                            !.pc = "raised"]
    /\ UNCHANGED <<process, AGENT_STATUS, sessions, uuids, req, run, seen,
                   results, fetch, scraped_results, scrape_pc, consume, share, envtool>>

\* One turn of `for item in items` (lines 28-33).
SearchItem ==
    /\ search.pc = "loop"
    /\ Len(search.results) < Len(search.items)
    /\ search' = [search EXCEPT
                     !.results = Append(@, result_entry(search.items[Len(@) + 1]))]
    /\ UNCHANGED <<process, AGENT_STATUS, sessions, uuids, req, run, seen,
                   results, fetch, scraped_results, scrape_pc, consume, share, envtool>>

\* return response_to_return (lines 34-39).
SearchReturn ==
    /\ search.pc = "loop"
    /\ Len(search.results) = Len(search.items)
    /\ search' = [search EXCEPT !.ret = [ok |-> TRUE, results |-> search.results],
                                !.pc = "returned"]
    /\ UNCHANGED <<process, AGENT_STATUS, sessions, uuids, req, run, seen,
                   results, fetch, scraped_results, scrape_pc, consume, share, envtool>>

SearchNext == SearchGet \/ SearchItem \/ SearchReturn

SearchSpec == SearchInit /\ [][SearchNext]_vars

----------------------------------------------------------------------------
(* ShareSpec: stock_analyzer/stock.py, get_share_price *)

\* Keys of time_series: timestamps of one format, so that sorted() orders
\* them by time; they are numbered in that order.
Timestamps == 1..MaxTimestamps

\* Values of "4. close": two prices and a text float() rejects.
Closes == {<<"101.5">>, <<"99">>, <<"n/a">>}

\* One entry of the time series, with or without its "4. close".
TimeSeriesEntries ==
    { [k \in {"1. open", "4. close"} |-> IF k = "4. close" THEN c ELSE <<"100">>] :
         c \in Closes }
    \cup { [k \in {"1. open"} |-> <<"100">>] }

\* The value of "Time Series (5min)": a dict over some timestamps, possibly
\* none, or a value that is no dict.
TimeSeriesBlocks ==
    { [type |-> "dict", items |-> b] :
         b \in UNION { [T -> TimeSeriesEntries] : T \in SUBSET Timestamps } }
    \cup { [type |-> "str", items |-> << >>] }

\* Keys the answer of the API may carry besides the block.
MessageKeys == {"Note", "Error Message"}

\* f"{float(latest_close):.2f}"; float() raises ValueError for other text.
IsFloat(c) == c \in {<<"101.5">>, <<"99">>}

Format2f(c) ==
    CASE c = <<"101.5">> -> <<"101.50">>
      [] c = <<"99">> -> <<"99.00">>

\* ticker_symbol.upper()
upper(ticker) == IF ticker = <<"aapl">> THEN <<"AAPL">> ELSE ticker

Max(S) == CHOOSE x \in S : \A y \in S : y <= x

\* Mutant: the first key of the sorted list.
latest_timestamp_first(time_series) ==
    CHOOSE x \in DOMAIN time_series : \A y \in DOMAIN time_series : x <= y

\* latest_timestamp = sorted(time_series.keys())[-1]
latest_timestamp(time_series) == Max(DOMAIN time_series)

\* except Exception as e: return f"An error occurred ...: {str(e)}"
share_exception(ticker, e) == [kind |-> "exception", symbol |-> ticker, text |-> e]

\* Lines 16-26 inside the try of get_share_price, with the exceptions the
\* statements raise turned into the except branch's message (lines 27-28).
share_answer(ticker, data) ==
    IF "Time Series (5min)" \in DOMAIN data
    THEN LET time_series == data["Time Series (5min)"].items
         IN  IF data["Time Series (5min)"].type # "dict"
             THEN share_exception(ticker, "AttributeError")
             ELSE IF DOMAIN time_series = {}
             THEN share_exception(ticker, "IndexError")
             ELSE LET entry == time_series[latest_timestamp(time_series)]
                  IN  IF "4. close" \notin DOMAIN entry
                      THEN share_exception(ticker, "KeyError")
                      ELSE IF ~IsFloat(entry["4. close"])
                      THEN share_exception(ticker, "ValueError")
                      ELSE [kind |-> "price", symbol |-> upper(ticker),
                            text |-> Format2f(entry["4. close"])]
    ELSE IF "Note" \in DOMAIN data
    THEN [kind |-> "notice", symbol |-> ticker, text |-> data["Note"]]
    ELSE IF "Error Message" \in DOMAIN data
    THEN [kind |-> "error", symbol |-> ticker, text |-> data["Error Message"]]
    ELSE [kind |-> "unexpected", symbol |-> ticker, text |-> "data"]

\* What requests.get and response.json() can meet: a JSON object, a
\* transport failure, a body that is not JSON.
ShareOutcomes == {"json", "ConnectionError", "JSONDecodeError"}

ShareIdleCall(o, d) ==
    [ pc |-> "call", ticker |-> <<"aapl">>, outcome |-> o, data |-> d,
      attempts |-> 0, ret |-> None ]

ShareInit ==
    /\ FrontDoorInit /\ PipelineIdle /\ ScrapeIdle
    /\ ConsumeIdle /\ SearchIdle /\ EnvIdle
    /\ \/ \E o \in ShareOutcomes \ {"json"} : share = ShareIdleCall(o, << >>)
       \/ \E keys \in SUBSET MessageKeys :
            share = ShareIdleCall("json", [k \in keys |-> <<"text of", k>>])
       \/ \E keys \in SUBSET MessageKeys, block \in TimeSeriesBlocks :
            share = ShareIdleCall("json",
                       [k \in keys \cup {"Time Series (5min)"} |->
                           IF k \in keys THEN <<"text of", k>> ELSE block])

\* requests.get(url) and response.json() (lines 14-15), or their exception.
ShareGet ==
    /\ share.pc = "call"
    /\ IF share.outcome = "json"
       THEN share' = [share EXCEPT !.attempts = @ + 1, !.pc = "parsed"]
       ELSE share' = [share EXCEPT !.attempts = @ + 1, !.pc = "returned",
                                   !.ret = share_exception(share.ticker, share.outcome)]
    /\ UNCHANGED <<process, AGENT_STATUS, sessions, uuids, req, run, seen,
                   results, fetch, scraped_results, scrape_pc, consume, search, envtool>>

\* The rest of the function (lines 16-28).
ShareAnswer ==
    /\ share.pc = "parsed"
    /\ share' = [share EXCEPT !.pc = "returned",
                              !.ret = share_answer(share.ticker, share.data)]
    /\ UNCHANGED <<process, AGENT_STATUS, sessions, uuids, req, run, seen,
                   results, fetch, scraped_results, scrape_pc, consume, search, envtool>>

ShareNext == ShareGet \/ ShareAnswer

ShareSpec == ShareInit /\ [][ShareNext]_vars

----------------------------------------------------------------------------
(* EnvSpec: tools.py / google_search_tool.py, get_google_search_tool *)

EnvNames ==
    {"GOOGLE_SEARCH_API_KEY", "GOOGLE_SEARCH_ENGINE_ID", "GOOGLE_CUSTOM_SEARCH_URL"}

\* Values a variable of the environment can hold, the empty string included.
EnvValues == {"", "a", "b"}

\* The environments of the process: each variable unset or set to a value.
Environments == UNION { [S -> EnvValues] : S \in SUBSET EnvNames }

\* The default of GoogleSearchTool.__init__'s search_url.
DefaultSearchUrl == "https://www.googleapis.com/customsearch/v1"

\* Mutant: a test for None only.
not_get_is_none(env, name) == name \notin DOMAIN env

\* `not os.environ.get(name)`: true for an unset variable (None) and for an
\* empty one.
not_get(env, name) == IF name \in DOMAIN env THEN env[name] = "" ELSE TRUE

\* GoogleSearchTool(api_key, engine_id[, search_url])
GoogleSearchTool(api_key, engine_id, search_url) ==
    [api_key |-> api_key, engine_id |-> engine_id, search_url |-> search_url]

ValueError(name) == <<"ValueError", name, "environment variable not set.">>

EnvInit ==
    /\ FrontDoorInit /\ PipelineIdle /\ ScrapeIdle
    /\ ConsumeIdle /\ SearchIdle /\ ShareIdle
    /\ \E e \in Environments :
         envtool = [pc |-> "check_api_key", env |-> e, ret |-> None, raised |-> None]

\* if not api_key: raise ValueError (lines 51-56)
EnvCheckApiKey ==
    /\ envtool.pc = "check_api_key"
    /\ envtool' = IF not_get(envtool.env, "GOOGLE_SEARCH_API_KEY")
                  THEN [envtool EXCEPT !.pc = "raised",
                                       !.raised = ValueError("GOOGLE_SEARCH_API_KEY")]
                  ELSE [envtool EXCEPT !.pc = "check_engine_id"]
    /\ UNCHANGED <<process, AGENT_STATUS, sessions, uuids, req, run, seen,
                   results, fetch, scraped_results, scrape_pc, consume, search, share>>

\* if not engine_id: raise ValueError (lines 57-58)
EnvCheckEngineId ==
    /\ envtool.pc = "check_engine_id"
    /\ envtool' = IF not_get(envtool.env, "GOOGLE_SEARCH_ENGINE_ID")
                  THEN [envtool EXCEPT !.pc = "raised",
                                       !.raised = ValueError("GOOGLE_SEARCH_ENGINE_ID")]
                  ELSE [envtool EXCEPT !.pc = "construct"]
    /\ UNCHANGED <<process, AGENT_STATUS, sessions, uuids, req, run, seen,
                   results, fetch, scraped_results, scrape_pc, consume, search, share>>

\* return GoogleSearchTool(...) if search_url else GoogleSearchTool(...) (line 60)
EnvConstruct ==
    /\ envtool.pc = "construct"
    /\ LET e == envtool.env
       IN  envtool' = [envtool EXCEPT
              !.pc = "returned",
              !.ret = IF ~not_get(e, "GOOGLE_CUSTOM_SEARCH_URL")
                      THEN GoogleSearchTool(e["GOOGLE_SEARCH_API_KEY"],
                                            e["GOOGLE_SEARCH_ENGINE_ID"],
                                            e["GOOGLE_CUSTOM_SEARCH_URL"])
                      ELSE GoogleSearchTool(e["GOOGLE_SEARCH_API_KEY"],
                                            e["GOOGLE_SEARCH_ENGINE_ID"],
                                            DefaultSearchUrl)]
    /\ UNCHANGED <<process, AGENT_STATUS, sessions, uuids, req, run, seen,
                   results, fetch, scraped_results, scrape_pc, consume, search, share>>

EnvNext == EnvCheckApiKey \/ EnvCheckEngineId \/ EnvConstruct

EnvSpec == EnvInit /\ [][EnvNext]_vars

----------------------------------------------------------------------------
(* Properties *)

Started(p, leaf) == \E i \in 1..Len(p.log) : p.log[i] = <<"start", leaf>>

StageStarted(p, stage) ==
    \E i \in 1..Len(p.log) : p.log[i][1] = "start" /\ StageOf(p.log[i][2]) = stage

WhitespaceOnly(q) == \A i \in 1..Len(q) : isspace(q[i])

\* C1: every request that got past validation uses a session id of its own:
\* a 200 reply carries the request's non-empty session id, and no two requests
\* (whatever their interleaving) hold the same session id.
C1_SessionIdsDistinct ==
    /\ \A r \in Requests :
         (req[r].endpoint = "/chat" /\ req[r].reply.status = HTTP_200_OK) =>
            /\ req[r].reply.session_id # NoSession
            /\ req[r].reply.session_id = req[r].session_id
            /\ req[r].session_id \in DOMAIN sessions
    /\ \A r1, r2 \in Requests :
         (r1 # r2 /\ req[r1].session_id # NoSession /\ req[r2].session_id # NoSession)
            => req[r1].session_id # req[r2].session_id

\* C1 witness: two requests of the same user have both been answered with 200.
C1_Witness ==
    \E r1, r2 \in Requests :
       /\ r1 # r2
       /\ req[r1].user_id = req[r2].user_id
       /\ req[r1].endpoint = "/chat" /\ req[r1].reply.status = HTTP_200_OK
       /\ req[r2].endpoint = "/chat" /\ req[r2].reply.status = HTTP_200_OK

\* C2: a request whose query is empty or whitespace-only ends with a client
\* error, holds no session id and never invoked runner.run_async; every stored
\* session belongs to a request whose query is not blank.
C2_BlankQueryRejected ==
    /\ \A r \in Requests :
         (req[r].endpoint = "/chat" /\ WhitespaceOnly(req[r].query)) =>
            /\ req[r].pc = "done"
            /\ req[r].reply.status \in {HTTP_400_BAD_REQUEST, HTTP_422_UNPROCESSABLE_ENTITY}
            /\ req[r].session_id = NoSession
            /\ req[r].runs = 0
            /\ req[r].p = NewRun
    /\ \A sid \in DOMAIN sessions :
         \E r \in Requests : req[r].session_id = sid /\ ~WhitespaceOnly(req[r].query)
    /\ Cardinality(DOMAIN sessions) =
         Cardinality({r \in Requests :
                         req[r].endpoint = "/chat" /\ ~WhitespaceOnly(req[r].query)})

\* C2 witness: an empty query and a whitespace-only query have both been
\* rejected while the service was serving.
C2_Witness ==
    \E r1, r2 \in Requests :
       /\ req[r1].pc = "done" /\ req[r1].query = << >>
       /\ req[r1].reply.status = HTTP_422_UNPROCESSABLE_ENTITY
       /\ req[r2].pc = "done" /\ req[r2].query # << >> /\ WhitespaceOnly(req[r2].query)
       /\ req[r2].reply.status = HTTP_400_BAD_REQUEST

\* The stage whose text is the pipeline's final output under each decision.
FinalStage(route) ==
    CASE route = "Both" -> "synthesizer_agent"
      [] route = "FinancialOnly" -> "data_researcher_agent"
      [] route = "WebOnly" -> "web_intelligence_agent"
      [] OTHER -> "router_agent"

\* C3: the text of a 200 reply is the output of the pipeline's last stage for
\* the router's decision (synthesizer for Both, the single specialist
\* otherwise, the router only for a clarification request).
C3_ResponseIsFinalOutput ==
    \A r \in Requests :
       (req[r].reply.status = HTTP_200_OK /\ req[r].p.route \in Routes) =>
          StageOf(req[r].reply.response.by) = FinalStage(req[r].p.route)

\* C4: in a run of root_agent the leaf agents run one at a time (every start
\* is followed by the end of the same agent before anything else starts), no
\* agent of the web specialist starts before data_researcher_agent has ended,
\* and the financial output precedes every web output in the outputs the
\* synthesizer reads.
C4_SequentialFinancialFirst ==
    /\ \A i \in 1..Len(run.log) :
         /\ run.log[i][1] = "start" =>
               (i = Len(run.log) \/ run.log[i + 1] = <<"end", run.log[i][2]>>)
         /\ run.log[i][1] = "end" =>
               (i > 1 /\ run.log[i - 1] = <<"start", run.log[i][2]>>)
    /\ \A i \in 1..Len(run.log) :
         (run.log[i][1] = "start" /\ StageOf(run.log[i][2]) = "web_intelligence_agent")
            => \E j \in 1..(i - 1) : run.log[j] = <<"end", "data_researcher_agent">>
    /\ \A i, j \in 1..Len(run.outputs) :
         (run.outputs[i].by = "data_researcher_agent"
            /\ StageOf(run.outputs[j].by) = "web_intelligence_agent") => i < j

\* C4 witness: a run decided Both has ended after both specialists and the
\* synthesizer ran, the financial specialist having called its tool.
C4_Witness ==
    /\ run.state = "exhausted"
    /\ run.route = "Both"
    /\ Started(run, "data_researcher_agent")
    /\ StageStarted(run, "web_intelligence_agent")
    /\ Started(run, "synthesizer_agent")
    /\ \E i \in 1..Len(seen) :
         seen[i].author = "data_researcher_agent" /\ seen[i].kind = "function_response"

\* C5: only the specialists the router's decision names are invoked.
C5_OnlyRoutedSpecialistsRun ==
    /\ run.route = "FinancialOnly" => ~StageStarted(run, "web_intelligence_agent")
    /\ run.route = "WebOnly" => ~StageStarted(run, "data_researcher_agent")

NumSpecialistOutputs(p) ==
    Cardinality({StageOf(p.outputs[i].by) : i \in 1..Len(p.outputs)} \cap Specialists)

\* C6: synthesizer_agent is entered only when both specialists produced
\* output, and never in a request the router answered with a clarification
\* request.
C6_SynthesizerOnlyForTwoOutputs ==
    Started(run, "synthesizer_agent") =>
       /\ NumSpecialistOutputs(run) >= 2
       /\ run.route # "Clarify"

\* C7: after a clarification request of the router no specialist is invoked.
C7_ClarificationInvokesNoSpecialist ==
    run.route = "Clarify" =>
       \A s \in Specialists : ~StageStarted(run, s)

Iterations(p) ==
    Cardinality({i \in 1..Len(p.log) : p.log[i] = <<"start", "data_gatherer_agent">>})

\* C8: a run never starts the data_gatherer -> optimizer sequence more than 3
\* times, and the loop counter never exceeds 3.
C8_LoopAtMostThreeIterations ==
    /\ Iterations(run) <= 3
    /\ run.times_looped <= 3
    /\ Cardinality({i \in 1..Len(run.log) : run.log[i] = <<"end", "optimizer_agent">>}) <= 3

\* C8 witness: the loop ran its third iteration to the end and the run moved
\* on to the synthesizer.
C8_Witness ==
    /\ Iterations(run) = 3
    /\ Started(run, "synthesizer_agent")

\* C9: scrape_links returns one entry per input result, in input order, with
\* title, snippet and link carried over; an entry has content and no error
\* exactly when its link could be fetched, and an error and no content
\* otherwise.  While the loop runs the same holds of the entries built so far.
C9_ScrapeKeepsEveryEntry ==
    /\ scrape_pc = "returned" => Len(scraped_results) = Len(results)
    /\ Len(scraped_results) <= Len(results)
    /\ \A i \in 1..Len(scraped_results) :
         /\ scraped_results[i].title = results[i].title
         /\ scraped_results[i].snippet = results[i].snippet
         /\ scraped_results[i].url = results[i].link
         /\ fetch[i] = "page" =>
               (scraped_results[i].html_content # None /\ scraped_results[i].error = None)
         /\ fetch[i] # "page" =>
               (scraped_results[i].html_content = None /\ scraped_results[i].error # None)

\* C9 witness: scrape_links has returned for three links of which exactly the
\* second could not be fetched.
C9_Witness ==
    /\ scrape_pc = "returned"
    /\ Len(results) = 3
    /\ fetch = <<"page", "RequestException", "page">>

\* C10: a request in whose processing a fault was raised is answered with
\* status 500 and a detail that carries the error's text, without a response
\* text or session id, after a single call of runner.run_async; every answer
\* has one of the handler's status codes.
C10_FaultsAreFormatted ==
    /\ \A r \in Requests :
         req[r].p.state = "raised" =>
            /\ req[r].pc = "done"
            /\ req[r].reply.status = HTTP_500_INTERNAL_SERVER_ERROR
            /\ Len(req[r].reply.detail) = 2
            /\ req[r].reply.detail[2] = "PipelineFault"
            /\ req[r].reply.response = NoneText
            /\ req[r].reply.session_id = NoSession
            /\ req[r].runs = 1
    /\ \A r \in Requests :
         req[r].pc = "done" =>
            req[r].reply.status \in
               {HTTP_200_OK, HTTP_400_BAD_REQUEST, HTTP_422_UNPROCESSABLE_ENTITY,
                HTTP_500_INTERNAL_SERVER_ERROR, HTTP_503_SERVICE_UNAVAILABLE}

\* C10 witness: a pipeline fault was raised in one request while another
\* request was answered normally.
C10_Witness ==
    \E r1, r2 \in Requests :
       /\ req[r1].p.state = "raised" /\ req[r1].pc = "done"
       /\ req[r2].endpoint = "/chat" /\ req[r2].reply.status = HTTP_200_OK


InitFailed == AGENT_STATUS \notin {"unset", "initialized"}

\* C11: after a failed initialization the service is there to answer
\* GET /health; every answer of GET /health is 503 exactly when initialization
\* failed and 200 exactly when it succeeded, and the body's status is "healthy"
\* exactly with 200.
C11_HealthReflectsInit ==
    /\ InitFailed => process = "serving"
    /\ \A r \in Requests :
         req[r].endpoint = "/health" =>
            /\ req[r].reply.status = HTTP_503_SERVICE_UNAVAILABLE <=> InitFailed
            /\ req[r].reply.status = HTTP_200_OK <=> AGENT_STATUS = "initialized"
            /\ req[r].reply.detail[1] = "healthy" <=> req[r].reply.status = HTTP_200_OK

C13_SharedStateReadOnly ==
    [][ process = "serving" =>
          (sessions' = sessions /\ AGENT_STATUS' = AGENT_STATUS) ]_vars

\* C13 as amended: a step of a request changes no other request, adds no
\* session but its own and writes no session but its own; the session store
\* changes only in such steps; AGENT_STATUS does not change once the service
\* serves.
C13_RequestsTouchOwnSessionOnly ==
    [][ /\ process = "serving" =>
             (AGENT_STATUS' = AGENT_STATUS /\ process' = process)
        /\ sessions' # sessions => \E r \in Requests : req'[r] # req[r]
        /\ \A r \in Requests :
             req'[r] # req[r] =>
                /\ \A r2 \in Requests \ {r} : req'[r2] = req[r2]
                /\ DOMAIN sessions \subseteq DOMAIN sessions'
                /\ DOMAIN sessions' \subseteq DOMAIN sessions \cup {req'[r].session_id}
                /\ \A sid \in DOMAIN sessions :
                     sid # req'[r].session_id => sessions'[sid] = sessions[sid] ]_vars

\* C13 witness: two requests were in flight together; one has been answered
\* and its session holds its event, the other still waits and its session
\* holds none.
C13_Witness ==
    \E r1, r2 \in Requests :
       /\ req[r1].endpoint = "/chat" /\ req[r1].reply.status = HTTP_200_OK
       /\ req[r2].pc = "run_async"
       /\ req[r1].session_id # req[r2].session_id
       /\ Len(sessions[req[r1].session_id].events) = 1
       /\ Len(sessions[req[r2].session_id].events) = 0


\* The requests whose create_session succeeded.
SessionCreated == {r \in Requests : req[r].runs > 0}

\* C19: the store holds exactly one session for every request whose
\* create_session succeeded, whatever the request's end, and no step removes
\* a session.
C19_SessionsOnlyGrow ==
    /\ [](/\ DOMAIN sessions = {req[r].session_id : r \in SessionCreated}
          /\ Cardinality(DOMAIN sessions) = Cardinality(SessionCreated)
          /\ \A r \in SessionCreated :
               sessions[req[r].session_id].user_id = req[r].user_id)
    /\ [][DOMAIN sessions \subseteq DOMAIN sessions']_vars

\* C19 witness: a request that ended in a 500 after its session was created,
\* and a second answered request; both sessions are still stored.
C19_Witness ==
    \E r1, r2 \in Requests :
       /\ r1 # r2
       /\ req[r1].pc = "done" /\ req[r1].runs > 0
       /\ req[r1].reply.status = HTTP_500_INTERNAL_SERVER_ERROR
       /\ req[r2].pc = "done" /\ req[r2].reply.status = HTTP_200_OK
       /\ req[r2].endpoint = "/chat"
       /\ {req[r1].session_id, req[r2].session_id} \subseteq DOMAIN sessions
       /\ Cardinality(DOMAIN sessions) = 2


\* Positions of the final responses of a stream.
Finals(stream) == {i \in 1..Len(stream) : is_final_response(stream[i])}

FirstFinal(stream) == CHOOSE i \in Finals(stream) : \A j \in Finals(stream) : i <= j

\* C17: the handler consumes the events in order up to the first final
\* response and no further; it answers 200 with that event's text part if the
\* event has content, and with the fixed text if it has none or the stream
\* ends without a final response.
C17_FirstFinalResponseWins ==
    LET st == consume.stream
    IN  /\ consume.pc = "iterating" =>
              \A i \in 1..consume.consumed : ~is_final_response(st[i])
        /\ consume.pc = "returned" =>
              /\ consume.reply.status = HTTP_200_OK
              /\ IF Finals(st) = {}
                 THEN /\ consume.consumed = Len(st)
                      /\ consume.reply.response = DefaultText
                 ELSE /\ consume.consumed = FirstFinal(st)
                      /\ consume.reply.response =
                            IF st[FirstFinal(st)].content # NoneText
                            THEN st[FirstFinal(st)].content
                            ELSE DefaultText

\* C17 witness: a stream with a tool event, then a final response with text,
\* then a different final response; the answer is the first one's text.
C17_Witness ==
    /\ consume.pc = "returned"
    /\ Len(consume.stream) = 3
    /\ ~is_final_response(consume.stream[1])
    /\ is_final_response(consume.stream[2]) /\ consume.stream[2].content # NoneText
    /\ is_final_response(consume.stream[3]) /\ consume.stream[3].content # NoneText
    /\ consume.stream[3].content # consume.stream[2].content
    /\ consume.reply.response = consume.stream[2].content
    /\ consume.consumed = 2


InWebLoop(p) ==
    p.state = "running" /\ root_sub_agents[p.idx] = "web_intelligence_agent"

\* C16: once optimizer_agent has signalled convergence the web loop is over,
\* whatever the iteration count; the cap of 3 ends it otherwise.
C16_ConvergenceEndsLoop ==
    /\ Iterations(run) <= max_iterations
    /\ (/\ run.outputs # << >>
        /\ run.outputs[Len(run.outputs)] =
              [by |-> "optimizer_agent", says |-> "converged"])
          => ~InWebLoop(run)


\* The items of the API response of the call, [] when the key is absent.
SentItems == IF "items" \in DOMAIN search.body THEN search.body.items ELSE << >>

\* C14: search sends one request, never more; a transport or HTTP error
\* gives {ok: False, error, results: []} and no exception; a JSON answer
\* gives ok: True with one {title, snippet, link} entry per item, in order.
C14_SearchOneRequestNoRaise ==
    /\ search.requests <= 1
    /\ search.pc \in {"loop", "returned", "raised"} => search.requests = 1
    /\ search.outcome \in TransportErrors \cup HTTPErrors =>
          /\ search.pc # "raised"
          /\ search.pc = "returned" =>
                /\ DOMAIN search.ret = {"ok", "error", "results"}
                /\ search.ret.ok = FALSE
                /\ search.ret.error = <<"str(e)", search.outcome>>
                /\ search.ret.results = << >>
    /\ search.outcome = "json" =>
          /\ search.pc # "raised"
          /\ search.pc = "returned" =>
                /\ search.ret.ok = TRUE
                /\ Len(search.ret.results) = Len(SentItems)
                /\ \A i \in 1..Len(SentItems) :
                     /\ DOMAIN search.ret.results[i] = {"title", "snippet", "link"}
                     /\ \A k \in {"title", "snippet", "link"} :
                          search.ret.results[i][k] =
                             IF k \in DOMAIN SentItems[i] THEN SentItems[i][k] ELSE None

\* C14 witness: a call answered with three different items, one without a
\* title, returned in the API's order after one request.
C14_Witness ==
    /\ search.pc = "returned" /\ search.outcome = "json"
    /\ search.requests = 1
    /\ Len(SentItems) = 3
    /\ SentItems[1] # SentItems[2] /\ SentItems[2] # SentItems[3]
    /\ "title" \notin DOMAIN SentItems[2]
    /\ search.ret.ok
    /\ search.ret.results[2].title = None
    /\ search.ret.results[1].link = SentItems[1].link
    /\ search.ret.results[3].link = SentItems[3].link


\* The answer carries a non-empty time series whose latest entry has a close
\* that is a number.
HasLatestClose(sh) ==
    /\ sh.outcome = "json"
    /\ "Time Series (5min)" \in DOMAIN sh.data
    /\ sh.data["Time Series (5min)"].type = "dict"
    /\ DOMAIN sh.data["Time Series (5min)"].items # {}
    /\ LET ts == sh.data["Time Series (5min)"].items
           entry == ts[Max(DOMAIN ts)]
       IN  /\ "4. close" \in DOMAIN entry
           /\ IsFloat(entry["4. close"])

FailureKinds == {"notice", "error", "unexpected", "exception"}

\* C15: get_share_price sends one request and always returns a message: the
\* price of the latest entry exactly when the answer has a non-empty time
\* series whose latest entry has a numeric close, and a failure message for a
\* network error, a Note, an Error Message and every malformed answer.
C15_SharePriceSingleAttempt ==
    /\ share.attempts <= 1
    /\ share.pc \in {"call", "parsed", "returned"}
    /\ share.pc # "call" => share.attempts = 1
    /\ share.pc = "returned" =>
          /\ share.ret.kind = "price" <=> HasLatestClose(share)
          /\ share.ret.kind # "price" => share.ret.kind \in FailureKinds
          /\ HasLatestClose(share) =>
                LET ts == share.data["Time Series (5min)"].items
                IN  /\ share.ret.text = Format2f(ts[Max(DOMAIN ts)]["4. close"])
                    /\ share.ret.symbol = <<"AAPL">>
          /\ share.outcome # "json" => share.ret.kind = "exception"
          /\ (share.outcome = "json" /\ "Time Series (5min)" \notin DOMAIN share.data) =>
                /\ "Note" \in DOMAIN share.data => share.ret.kind = "notice"
                /\ ("Note" \notin DOMAIN share.data /\ "Error Message" \in DOMAIN share.data)
                      => share.ret.kind = "error"
                /\ DOMAIN share.data = {} => share.ret.kind = "unexpected"

\* C15 witness: an answer with two entries of different prices; the message
\* gives the later one, after one request.
C15_Witness ==
    /\ share.pc = "returned" /\ share.attempts = 1
    /\ HasLatestClose(share)
    /\ LET ts == share.data["Time Series (5min)"].items
       IN  /\ DOMAIN ts = Timestamps
           /\ "4. close" \in DOMAIN ts[1] /\ IsFloat(ts[1]["4. close"])
           /\ ts[1]["4. close"] # ts[MaxTimestamps]["4. close"]
           /\ share.ret.kind = "price"
           /\ share.ret.text = Format2f(ts[MaxTimestamps]["4. close"])


\* A variable without a usable value: unset, or set to the empty string.
Unset(name) ==
    IF name \in DOMAIN envtool.env THEN envtool.env[name] = "" ELSE TRUE

EnvFinished == envtool.pc \in {"raised", "returned"}

\* C20: get_google_search_tool raises ValueError for an unset API key, and
\* for an unset engine id only if the key is set (the key is tested first);
\* with both set it returns a tool with them and with the custom URL if that
\* is set, the default URL otherwise; no returned tool lacks key or engine id.
\* A variable set to the empty string counts as unset, as in the code.
C20_SearchToolNeedsKeyAndEngine ==
    /\ envtool.pc = "raised" =>
          /\ envtool.raised \in {ValueError("GOOGLE_SEARCH_API_KEY"),
                                 ValueError("GOOGLE_SEARCH_ENGINE_ID")}
          /\ envtool.ret = None
    /\ EnvFinished =>
          /\ Unset("GOOGLE_SEARCH_API_KEY") =>
                envtool.raised = ValueError("GOOGLE_SEARCH_API_KEY")
          /\ (~Unset("GOOGLE_SEARCH_API_KEY") /\ Unset("GOOGLE_SEARCH_ENGINE_ID")) =>
                envtool.raised = ValueError("GOOGLE_SEARCH_ENGINE_ID")
          /\ (~Unset("GOOGLE_SEARCH_API_KEY") /\ ~Unset("GOOGLE_SEARCH_ENGINE_ID")) =>
                /\ envtool.pc = "returned"
                /\ envtool.ret.api_key = envtool.env["GOOGLE_SEARCH_API_KEY"]
                /\ envtool.ret.engine_id = envtool.env["GOOGLE_SEARCH_ENGINE_ID"]
                /\ envtool.ret.search_url =
                      IF Unset("GOOGLE_CUSTOM_SEARCH_URL") THEN DefaultSearchUrl
                      ELSE envtool.env["GOOGLE_CUSTOM_SEARCH_URL"]
    /\ envtool.pc = "returned" =>
          /\ envtool.raised = None
          /\ envtool.ret.api_key # "" /\ envtool.ret.engine_id # ""

\* C20 witness: neither the key nor the engine id is in the environment and
\* the call has raised the error of the key.
C20_Witness ==
    /\ envtool.pc = "raised"
    /\ "GOOGLE_SEARCH_API_KEY" \notin DOMAIN envtool.env
    /\ "GOOGLE_SEARCH_ENGINE_ID" \notin DOMAIN envtool.env
    /\ envtool.raised = ValueError("GOOGLE_SEARCH_API_KEY")


====
